---- MODULE Spec2Model ----
(***************************************************************************)
(* A model of the LC-3 virtual machine of src/main.go: the image loader,   *)
(* the fetch/decode/execute loop with its shutdown check, the memory       *)
(* access layer with the memory-mapped keyboard registers, the opcode      *)
(* handlers and the trap routines.  All words are 16 bits wide.            *)
(***************************************************************************)
EXTENDS Integers, Sequences, FiniteSets, TLC

(* ---------------------------------------------------------------- bounds *)

\* Longest generated program (in instructions) of the program family.
MaxProg == 2

\* Most instruction fetches one run of the model performs.
MaxCycles == 7

(* ------------------------------------------------------------- constants *)

uint16Max == 65535

\* Number of values of a uint16 (the modulus of all register arithmetic).
Word == uint16Max + 1

R0 == 0
R1 == 1
R2 == 2
R3 == 3
R4 == 4
R5 == 5
R6 == 6
R7 == 7
RPc == 8
RCond == 9
RCount == 10

MrKbsr == 65024
MrKbdr == 65026

OpBreak == 0
OpAdd == 1
OpLoad == 2
OpStore == 3
OpJumpRegister == 4
OpAnd == 5
OpLoadRegister == 6
OpStoreRegister == 7
OpRti == 8
OpNot == 9
OpLoadIndirect == 10
OpStoreIndirect == 11
OpJump == 12
OpRes == 13
OpLoadEffectiveAddress == 14
OpTrap == 15

TrapGetC == 32
TrapOut == 33
TrapPutS == 34
TrapIn == 35
TrapPutSP == 36
TrapHalt == 37

FlagPositive == 1
FlagZero == 2
FlagNegative == 4

PcStart == 12288

(* ------------------------------------------------- uint16 bit operations *)

\* x >> k on an unsigned word.
Shr(x, k) == x \div (2 ^ k)

RECURSIVE BitAndN(_, _, _)
BitAndN(a, b, n) ==
    IF n = 0 THEN 0
    ELSE (a % 2) * (b % 2) + 2 * BitAndN(a \div 2, b \div 2, n - 1)

\* a & b on uint16.
BitAnd(a, b) == BitAndN(a, b, 16)

RECURSIVE BitOrN(_, _, _)
BitOrN(a, b, n) ==
    IF n = 0 THEN 0
    ELSE (IF a % 2 = 1 \/ b % 2 = 1 THEN 1 ELSE 0)
         + 2 * BitOrN(a \div 2, b \div 2, n - 1)

\* a | b on uint16.
BitOr(a, b) == BitOrN(a, b, 16)

\* ^a on uint16.
BitNot(a) == uint16Max - a

\* a + b on uint16 (wraps).
Add16(a, b) == (a + b) % Word

(* ------------------------------------------------------ the memory array *)

\* The memory array is all zero except where it was written: it is kept as
\* the function from the addresses of its non-zero cells to their values.
MemGet(m, a) == IF a \in DOMAIN m THEN m[a] ELSE 0

MemSet(m, a, v) ==
    IF v = 0
    THEN [x \in (DOMAIN m) \ {a} |-> m[x]]
    ELSE [x \in (DOMAIN m) \cup {a} |-> IF x = a THEN v ELSE m[x]]

EmptyMem == [x \in {} |-> 0]

\* var memory [uint16Max]uint16: the valid indices are 0 .. uint16Max - 1.
InMemory(a) == a >= 0 /\ a < uint16Max

\* var registers [RCount]uint16
InRegisters(i) == i >= 0 /\ i < RCount

(* ------------------------------------------------- character input/output *)

\* The mark behind the last rune of a standard input that has been closed.
Eof == -1

\* getChar: reader.ReadRune() waits for the next rune of standard input; inp
\* holds the runes that have arrived, with Eof behind them when the input has
\* been closed.  With nothing there the call does not return; at the end of
\* the input it returns io.EOF and checkErr panics.  The rune is cut to its
\* low byte, uint16(byte(char)).
getChar(inp) ==
    IF inp = << >>
    THEN [blocked |-> TRUE, fault |-> "none", val |-> 0, input |-> inp]
    ELSE IF Head(inp) = Eof
    THEN [blocked |-> FALSE, fault |-> "EOF", val |-> 0, input |-> inp]
    ELSE [blocked |-> FALSE, fault |-> "none", val |-> Head(inp) % 256,
          input |-> Tail(inp)]

\* checkKey: screen.Getch() != 0.  Getch waits for a key; ks holds the keys
\* that will be pressed, TRUE for a key code other than 0.  With no key to
\* come the call does not return.
checkKey(ks) ==
    [blocked |-> ks = << >>,
     val |-> ks # << >> /\ Head(ks),
     keys |-> IF ks = << >> THEN ks ELSE Tail(ks)]

\* string(c) of an integer c < 256 is the UTF-8 encoding of the code point c,
\* as print(string(byte(char))) and print(string(registers[R0] & 0xff)) emit.
Utf8(c) ==
    IF c < 128 THEN << c >> ELSE << 192 + (c \div 64), 128 + (c % 64) >>

\* "Enter a character: "
InPrompt ==
    << 69, 110, 116, 101, 114, 32, 97, 32, 99, 104, 97, 114, 97, 99, 116,
       101, 114, 58, 32 >>

\* "halt"
HaltNotice == << 104, 97, 108, 116 >>

(* --------------------------------------------------------- memory access *)

\* What a call of memRead has done when it returns or comes to wait: the
\* panic raised, the memory, the input and the keys it leaves, the value
\* returned, the blocking call it has come to ("none" when it has returned),
\* and whether that call has nothing to return yet.
Read(f, m, inp, ks, v, w, b) ==
    [fault |-> f, mem |-> m, input |-> inp, keys |-> ks, val |-> v,
     wait |-> w, blocked |-> b]

\* memRead: the read of one address, from the place wait up to its return or
\* to the next blocking call.  A read of KBSR waits in screen.Getch() and, with
\* a key, sets memory[MrKbsr] and waits in reader.ReadRune() before it writes
\* memory[MrKbdr]; a read of any other address clears memory[MrKbsr].
memRead(m, inp, ks, address, wait) ==
    IF address # MrKbsr
    THEN LET m1 == MemSet(m, MrKbsr, 0)
         IN  IF ~InMemory(address)
             THEN Read("memory index out of range", m1, inp, ks, 0, "none",
                       FALSE)
             ELSE Read("none", m1, inp, ks, MemGet(m1, address), "none", FALSE)
    ELSE IF wait = "none"
    THEN Read("none", m, inp, ks, 0, "getch", FALSE)
    ELSE IF wait = "getch"
    THEN LET k == checkKey(ks)
         IN  IF k.blocked
             THEN Read("none", m, inp, ks, 0, "getch", TRUE)
             ELSE IF k.val
             THEN Read("none", MemSet(m, MrKbsr, 32768), inp, k.keys, 0,
                       "rune", FALSE)
             ELSE Read("none", m, inp, k.keys, MemGet(m, MrKbsr), "none",
                       FALSE)
    ELSE LET c == getChar(inp)
             m1 == MemSet(m, MrKbdr, c.val)
         IN  IF c.blocked
             THEN Read("none", m, inp, ks, 0, "rune", TRUE)
             ELSE IF c.fault # "none"
             THEN Read(c.fault, m, inp, ks, 0, "none", FALSE)
             ELSE Read("none", m1, c.input, ks, MemGet(m1, MrKbsr), "none",
                       FALSE)

\* memWrite: memory[address] = value.
memWrite(m, address, value) ==
    IF ~InMemory(address)
    THEN [fault |-> "memory index out of range", mem |-> m]
    ELSE [fault |-> "none", mem |-> MemSet(m, address, value)]

(* -------------------------------------------------------- sign extension *)

\* signExtend testing bit bitCount instead of the field's top bit.
signExtendWrongBit(num, bitCount) ==
    IF Shr(num, bitCount) % 2 = 1
    THEN BitOr(num, (uint16Max * (2 ^ bitCount)) % Word)
    ELSE num

\* signExtend: 0xffff << bitCount is a uint16 shift, its high bits are lost.
signExtend(num, bitCount) ==
    IF Shr(num, bitCount - 1) % 2 = 1
    THEN BitOr(num, (uint16Max * (2 ^ bitCount)) % Word)
    ELSE num

\* pcPlusOffset: the results the call can have.  With the top bit of the
\* field clear it returns uint16(int16(valInPc) + int16(num)), a wrapping
\* addition.  With that bit set it comes to signedNum |= (0xffff << bitCount):
\* the untyped constant is shifted by a variable and so takes the type of the
\* int16 it is ORed into, which cannot hold 65535; Go gives the statement no
\* meaning and the call no result.
pcPlusOffset(valInPc, num, bitCount) ==
    IF Shr(num, bitCount - 1) % 2 = 1
    THEN {}
    ELSE { Add16(valInPc, num) }

(* ------------------------------------------------------------- the flags *)

\* updateFlags adding the new flag to the old ones instead of replacing them.
updateFlagsAccumulate(rs, register) ==
    IF rs[register] = 0
    THEN [rs EXCEPT ![RCond] = BitOr(rs[RCond], FlagZero)]
    ELSE IF Shr(rs[register], 15) = 1
    THEN [rs EXCEPT ![RCond] = BitOr(rs[RCond], FlagNegative)]
    ELSE [rs EXCEPT ![RCond] = BitOr(rs[RCond], FlagPositive)]

\* updateFlags comparing with 0x8000 instead of testing bit 15.
updateFlagsAboveSign(rs, register) ==
    IF rs[register] = 0
    THEN [rs EXCEPT ![RCond] = FlagZero]
    ELSE IF rs[register] > 32768
    THEN [rs EXCEPT ![RCond] = FlagNegative]
    ELSE [rs EXCEPT ![RCond] = FlagPositive]

\* updateFlags on the register file rs.
updateFlags(rs, register) ==
    IF rs[register] = 0
    THEN [rs EXCEPT ![RCond] = FlagZero]
    ELSE IF Shr(rs[register], 15) = 1
    THEN [rs EXCEPT ![RCond] = FlagNegative]
    ELSE [rs EXCEPT ![RCond] = FlagPositive]

(* ------------------------------------------------------ the image loader *)

\* readUint16: file.Read of two bytes at position pos (1-based).  At the end
\* of the file it returns io.EOF; one last byte is read without an error
\* and leaves the second byte of the buffer zero.
readUint16(bytes, pos) ==
    IF pos > Len(bytes)
    THEN [err |-> "EOF", val |-> 0, pos |-> pos]
    ELSE IF pos = Len(bytes)
    THEN [err |-> "nil", val |-> bytes[pos] * 256, pos |-> pos + 1]
    ELSE [err |-> "nil", val |-> bytes[pos] * 256 + bytes[pos + 1],
          pos |-> pos + 2]

\* The loop of readImageFile: for i := origin; i < (uint16Max - origin); i++.
RECURSIVE readImageLoop(_, _, _, _, _)
readImageLoop(bytes, pos, i, limit, m) ==
    IF ~(i < limit)
    THEN m
    ELSE LET r == readUint16(bytes, pos)
         IN  IF r.err = "EOF"
             THEN m
             ELSE readImageLoop(bytes, r.pos, i + 1, limit, MemSet(m, i, r.val))

\* readImageFile: the error of the origin's read is dropped (origin, _ :=).
readImageFile(bytes, m) ==
    LET o == readUint16(bytes, 1)
        origin == o.val
    IN  readImageLoop(bytes, o.pos, origin, uint16Max - origin, m)

\* readImage: os.Open fails on a file that cannot be opened, checkErr panics.
readImage(f, m) ==
    IF ~f.exists
    THEN [fault |-> "open", mem |-> m]
    ELSE [fault |-> "none", mem |-> readImageFile(f.bytes, m)]

(* ------------------------------------------------------ instruction fields *)

\* instruction >> 12
OpCodeOf(i) == Shr(i, 12)

\* (instruction >> 9) & 0x7: destination or source register
DrOf(i) == Shr(i, 9) % 8

\* (instruction >> 6) & 0x7: first operand or base register
BaseOf(i) == Shr(i, 6) % 8

\* (instruction >> 5) & 0x1
ImmFlagOf(i) == Shr(i, 5) % 2

\* instruction & 0xFF
TrapCodeOf(i) == i % 256

(* ------------------------------------------------------------- the inputs *)

\* A word written as four hexadecimal digits.
Hex(a, b, c, d) == ((a * 16 + b) * 16 + c) * 16 + d

\* The bytes of a sequence of words, big-endian.
WordsToBytes(ws) ==
    [i \in 1 .. 2 * Len(ws) |->
        IF i % 2 = 1 THEN ws[(i + 1) \div 2] \div 256 ELSE ws[i \div 2] % 256]

\* An image file: the origin, then the words.
ImageFile(origin, words) ==
    [exists |-> TRUE, bytes |-> WordsToBytes(<< origin >> \o words)]

\* The generated programs start at 0x3000 behind two data words at 0x2FFE:
\* the address of the keyboard status register and a packed string.
DataOrigin == Hex(2, 15, 15, 14)
Data == << Hex(15, 14, 0, 0), Hex(4, 1, 4, 2) >>

Instrs ==
    { Hex(1, 0, 2, 1),      \* ADD R0,R0,#1
      Hex(1, 0, 3, 15),     \* ADD R0,R0,#-1
      Hex(9, 0, 3, 15),     \* NOT R0,R0
      Hex(2, 3, 15, 13),    \* LD R1,#-3
      Hex(6, 0, 4, 0),      \* LDR R0,R1,#0
      Hex(7, 0, 4, 0),      \* STR R0,R1,#0
      Hex(14, 1, 15, 14),   \* LEA R0,#-2
      Hex(0, 15, 15, 15),   \* BRnzp #-1
      Hex(15, 0, 2, 2),     \* TRAP PUTS
      Hex(15, 0, 2, 5) }    \* TRAP HALT

Leads ==
    { Hex(1, 0, 2, 1),      \* ADD R0,R0,#1
      Hex(2, 3, 15, 13),    \* LD R1,#-3
      Hex(14, 1, 15, 14) }  \* LEA R0,#-2

Extras ==
    { Hex(1, 0, 0, 1),      \* ADD R0,R0,R1
      Hex(5, 0, 0, 1),      \* AND R0,R0,R1
      Hex(5, 2, 6, 0),      \* AND R1,R1,#0
      Hex(6, 0, 7, 15),     \* LDR R0,R1,#-1
      Hex(10, 1, 15, 13),   \* LDI R0,#-3
      Hex(3, 1, 15, 15),    \* ST R0,#-1
      Hex(3, 0, 0, 1),      \* ST R0,#1
      Hex(11, 1, 15, 15),   \* STI R0,#-1
      Hex(4, 8, 0, 1),      \* JSR #1
      Hex(4, 0, 4, 0),      \* JSRR R1
      Hex(12, 0, 4, 0),     \* JMP R1
      Hex(0, 4, 0, 1),      \* BRz #1
      Hex(8, 0, 0, 0),      \* RTI
      Hex(13, 0, 0, 0),     \* reserved
      Hex(15, 0, 2, 0),     \* TRAP GETC
      Hex(15, 0, 2, 1),     \* TRAP OUT
      Hex(15, 0, 2, 3),     \* TRAP IN
      Hex(15, 0, 2, 4),     \* TRAP PUTSP
      Hex(15, 0, 0, 0) }    \* TRAP 0x00

Programs ==
    UNION { [1 .. k -> Instrs] : k \in 1 .. MaxProg }
    \cup { << a, b >> : a \in Leads, b \in Extras }

\* A program that fills the last two cells of memory, 0xFFFD and 0xFFFE, and
\* prints the string that starts there with the given trap.
Unterminated(trap) ==
    ImageFile(Hex(2, 15, 15, 15),
              << Hex(15, 15, 15, 13),      \* 0x2FFF: 0xFFFD
                 Hex(2, 3, 15, 14),        \* LD R1,#-2
                 Hex(7, 2, 4, 0),          \* STR R1,R1,#0
                 Hex(7, 2, 4, 1),          \* STR R1,R1,#1
                 Hex(1, 0, 6, 0),          \* ADD R0,R1,#0
                 trap >>)

\* Images at other origins, a program that stores into the keyboard status
\* register right before the program counter reaches it, the strings without
\* a terminator, and a branch behind instructions that define no flag.
Scenarios ==
    { ImageFile(Hex(3, 0, 0, 0), << Hex(1, 0, 0, 1), Hex(1, 0, 0, 2) >>),
      ImageFile(Hex(8, 0, 0, 0), << Hex(1, 0, 0, 1) >>),
      ImageFile(Hex(7, 15, 15, 15), << Hex(1, 0, 0, 1), Hex(1, 0, 0, 2) >>),
      ImageFile(DataOrigin,
                << Hex(15, 13, 15, 15),    \* 0x2FFE: 0xFDFF
                   Hex(7, 4, 4, 1),        \* 0x2FFF: STR R2,R1,#1
                   Hex(2, 3, 15, 13),      \* LD R1,#-3
                   Hex(2, 5, 15, 13),      \* LD R2,#-3
                   Hex(7, 4, 4, 0),        \* STR R2,R1,#0
                   Hex(12, 0, 4, 0) >>),   \* JMP R1
      Unterminated(Hex(15, 0, 2, 2)),      \* TRAP PUTS
      Unterminated(Hex(15, 0, 2, 4)),      \* TRAP PUTSP
      ImageFile(Hex(3, 0, 0, 0),
                << Hex(1, 0, 3, 15),       \* ADD R0,R0,#-1
                   Hex(7, 0, 4, 0),        \* STR R0,R1,#0
                   Hex(4, 8, 0, 0),        \* JSR #0
                   Hex(15, 0, 2, 1),       \* TRAP OUT
                   Hex(0, 8, 0, 1) >>) }   \* BRn #1

\* A file that cannot be opened, an empty file, a file of one byte, and an
\* image whose last word is cut after its first byte.
RawFiles ==
    { [exists |-> FALSE, bytes |-> << >>],
      [exists |-> TRUE, bytes |-> << >>],
      [exists |-> TRUE, bytes |-> << 48 >>],
      [exists |-> TRUE, bytes |-> << 48, 0, 16, 33, 240 >>] }

Files ==
    { ImageFile(DataOrigin, Data \o p) : p \in Programs }
    \cup Scenarios \cup RawFiles

\* Standard input and the terminal: the runes that arrive, with Eof behind
\* them when the input is closed, and the keys that are pressed.  Nobody at
\* the terminal and a closed input; a key at the terminal with an input that
\* stays open and empty, or closed, or with runes; a key of code 0 before
\* another key.
Environments ==
    { [input |-> << Eof >>, keys |-> << >>],
      [input |-> << >>, keys |-> << TRUE >>],
      [input |-> << Eof >>, keys |-> << TRUE >>],
      [input |-> << 65, 66, Eof >>, keys |-> << TRUE >>],
      [input |-> << 321, Eof >>, keys |-> << FALSE, TRUE >>] }

(* --------------------------------------------------------------- the state *)

VARIABLES
    file,       \* the image file named on the command line
    input,      \* the runes not yet read from standard input, Eof at its end
    keys,       \* the keys not yet read from the terminal
    mem,        \* memory
    regs,       \* registers
    loc,        \* where main is: load, check, fetch, exec, puts, putsp,
                \* halted, stopped, panic
    ir,         \* instruction, the word fetched in this cycle
    ploc,       \* loc, the address the PUTS or PUTSP loop reads next
    shutdown,   \* shutdownCh is closed
    out,        \* the bytes printed so far
    fault,      \* the panic that ended the run
    cycles,     \* the instructions fetched so far
    args,       \* the arguments of a function applied on its own
    result,     \* and its result
    at          \* where main waits inside the handler: which memRead call
                \* of the handler, and which blocking call in it

vars ==
    << file, input, keys, mem, regs, loc, ir, ploc, shutdown, out, fault,
       cycles, args, result, at >>

\* main is in no blocking call.
NoWait == [call |-> 1, wait |-> "none"]

Init ==
    /\ file \in Files
    /\ \E e \in Environments : input = e.input /\ keys = e.keys
    /\ mem = EmptyMem
    /\ regs = [i \in 0 .. RCount - 1 |-> 0]
    /\ loc = "load"
    /\ ir = 0
    /\ ploc = 0
    /\ shutdown = FALSE
    /\ out = << >>
    /\ fault = "none"
    /\ cycles = 0
    /\ args = << >>
    /\ result = << >>
    /\ at = NoWait

\* The run ends in a panic; m and inp are what the panicking call left.
Panic(reason, m, inp, ks) ==
    /\ loc' = "panic"
    /\ fault' = reason
    /\ mem' = m
    /\ input' = inp
    /\ keys' = ks
    /\ at' = NoWait
    /\ UNCHANGED << file, regs, ir, ploc, shutdown, out, cycles, args, result >>

\* The handler returns and the loop goes on to its next cycle.
Done(rs, m, inp, ks, o) ==
    /\ loc' = "check"
    /\ regs' = rs
    /\ mem' = m
    /\ input' = inp
    /\ keys' = ks
    /\ out' = o
    /\ at' = NoWait
    /\ UNCHANGED << file, ir, ploc, shutdown, fault, cycles, args, result >>

\* The handler has come to the blocking call r.wait in its memRead call
\* number call, and waits there with what the call has done so far.
Wait(r, call) ==
    /\ at' = [call |-> call, wait |-> r.wait]
    /\ mem' = r.mem
    /\ input' = r.input
    /\ keys' = r.keys
    /\ UNCHANGED << file, regs, loc, ir, ploc, shutdown, out, fault, cycles,
                    args, result >>

\* main up to the loop: readImage, then registers[RPc] = PcStart.
Boot ==
    /\ loc = "load"
    /\ LET r == readImage(file, mem)
       IN  IF r.fault # "none"
           THEN Panic(r.fault, r.mem, input, keys)
           ELSE /\ loc' = "check"
                /\ mem' = r.mem
                /\ regs' = [regs EXCEPT ![RPc] = PcStart]
                /\ UNCHANGED << file, input, keys, ir, ploc, shutdown, out,
                                fault, cycles, args, result, at >>

\* The signal goroutine: close(shutdownCh), at any moment of the loop.
Interrupt ==
    /\ loc \in { "check", "fetch", "exec", "puts", "putsp" }
    /\ ~shutdown
    /\ shutdown' = TRUE
    /\ UNCHANGED << file, input, keys, mem, regs, loc, ir, ploc, out, fault,
                    cycles, args, result, at >>

\* The head of the loop without the select: the loop never looks at
\* shutdownCh.
CheckShutdownSkipped ==
    /\ loc = "check"
    /\ loc' = "fetch"
    /\ UNCHANGED << file, input, keys, mem, regs, ir, ploc, shutdown, out,
                    fault, cycles, args, result, at >>

\* The select at the head of the loop: return when shutdownCh is closed.
CheckShutdown ==
    /\ loc = "check"
    /\ loc' = IF shutdown THEN "stopped" ELSE "fetch"
    /\ UNCHANGED << file, input, keys, mem, regs, ir, ploc, shutdown, out,
                    fault, cycles, args, result, at >>

\* instruction := memRead(registers[RPc]); registers[RPc]++
Fetch ==
    /\ loc = "fetch"
    /\ cycles < MaxCycles
    /\ LET r == memRead(mem, input, keys, regs[RPc], at.wait)
       IN  /\ ~r.blocked
           /\ IF r.fault # "none"
              THEN /\ loc' = "panic"
                   /\ fault' = r.fault
                   /\ mem' = r.mem
                   /\ input' = r.input
                   /\ keys' = r.keys
                   /\ cycles' = cycles + 1
                   /\ at' = NoWait
                   /\ UNCHANGED << file, regs, ir, ploc, shutdown, out, args,
                                   result >>
              ELSE IF r.wait # "none"
              THEN Wait(r, 1)
              ELSE /\ loc' = "exec"
                   /\ ir' = r.val
                   /\ regs' = [regs EXCEPT ![RPc] = Add16(regs[RPc], 1)]
                   /\ mem' = r.mem
                   /\ input' = r.input
                   /\ keys' = r.keys
                   /\ cycles' = cycles + 1
                   /\ at' = NoWait
                   /\ UNCHANGED << file, ploc, shutdown, out, fault, args,
                                   result >>

(* ---------------------------------------------------- the opcode handlers *)

\* case OpBreak
ExecBreak ==
    /\ loc = "exec"
    /\ OpCodeOf(ir) = OpBreak
    /\ LET isNegative == Shr(ir, 11) % 2 = 1
           isZero == Shr(ir, 10) % 2 = 1
           isPositive == Shr(ir, 9) % 2 = 1
           isSet == \/ (isNegative /\ regs[RCond] = FlagNegative)
                    \/ (isZero /\ regs[RCond] = FlagZero)
                    \/ (isPositive /\ regs[RCond] = FlagPositive)
       IN  IF isSet
           THEN \E target \in pcPlusOffset(regs[RPc], ir % 8192, 9) :
                    Done([regs EXCEPT ![RPc] = target], mem, input, keys, out)
           ELSE Done(regs, mem, input, keys, out)

\* OpAdd taking imm5 as an unsigned number.
ExecAddUnsignedImm ==
    /\ loc = "exec"
    /\ OpCodeOf(ir) = OpAdd
    /\ LET destRegister == DrOf(ir)
           firstOperand == BaseOf(ir)
           sum == IF ImmFlagOf(ir) = 1
                  THEN Add16(regs[firstOperand], ir % 32)
                  ELSE Add16(regs[firstOperand], regs[ir % 8])
       IN  Done(updateFlags([regs EXCEPT ![destRegister] = sum], destRegister),
                mem, input, keys, out)

\* case OpAdd
ExecAdd ==
    /\ loc = "exec"
    /\ OpCodeOf(ir) = OpAdd
    /\ LET destRegister == DrOf(ir)
           firstOperand == BaseOf(ir)
           sum == IF ImmFlagOf(ir) = 1
                  THEN Add16(regs[firstOperand], signExtend(ir % 32, 5))
                  ELSE Add16(regs[firstOperand], regs[ir % 8])
       IN  Done(updateFlags([regs EXCEPT ![destRegister] = sum], destRegister),
                mem, input, keys, out)

\* case OpLoad
ExecLoad ==
    /\ loc = "exec"
    /\ OpCodeOf(ir) = OpLoad
    /\ LET destRegister == DrOf(ir)
           pcOffset9 == signExtend(ir % 8192, 9)
           r == memRead(mem, input, keys, Add16(regs[RPc], pcOffset9), at.wait)
       IN  /\ ~r.blocked
           /\ IF r.fault # "none"
              THEN Panic(r.fault, r.mem, r.input, r.keys)
              ELSE IF r.wait # "none"
              THEN Wait(r, 1)
              ELSE Done(updateFlags([regs EXCEPT ![destRegister] = r.val],
                                    destRegister),
                        r.mem, r.input, r.keys, out)

\* case OpStore: the address is registers[RPc+pcOffset9], a uint16 index
\* into the register file.
ExecStore ==
    /\ loc = "exec"
    /\ OpCodeOf(ir) = OpStore
    /\ LET sourceRegister == DrOf(ir)
           pcOffset9 == signExtend(ir % 8192, 9)
           index == Add16(RPc, pcOffset9)
       IN  IF ~InRegisters(index)
           THEN Panic("register index out of range", mem, input, keys)
           ELSE LET w == memWrite(mem, regs[index], regs[sourceRegister])
                IN  IF w.fault # "none"
                    THEN Panic(w.fault, w.mem, input, keys)
                    ELSE Done(regs, w.mem, input, keys, out)

\* OpJumpRegister linking after the jump: R7 gets the target.
ExecJumpRegisterLinksLate ==
    /\ loc = "exec"
    /\ OpCodeOf(ir) = OpJumpRegister
    /\ LET bit11Set == Shr(ir, 11) % 2 = 1
           jumped == IF bit11Set
                     THEN [regs EXCEPT
                             ![RPc] = Add16(regs[RPc], signExtend(ir % 2048, 11))]
                     ELSE [regs EXCEPT ![RPc] = regs[BaseOf(ir)]]
       IN  Done([jumped EXCEPT ![R7] = jumped[RPc]], mem, input, keys, out)

\* case OpJumpRegister
ExecJumpRegister ==
    /\ loc = "exec"
    /\ OpCodeOf(ir) = OpJumpRegister
    /\ LET saved == [regs EXCEPT ![R7] = regs[RPc]]
           bit11Set == Shr(ir, 11) % 2 = 1
       IN  Done(IF bit11Set
                THEN [saved EXCEPT
                        ![RPc] = Add16(saved[RPc], signExtend(ir % 2048, 11))]
                ELSE [saved EXCEPT ![RPc] = saved[BaseOf(ir)]],
                mem, input, keys, out)

\* case OpAnd
ExecAnd ==
    /\ loc = "exec"
    /\ OpCodeOf(ir) = OpAnd
    /\ LET destRegister == DrOf(ir)
           firstOperand == BaseOf(ir)
           res == IF ImmFlagOf(ir) = 1
                  THEN BitAnd(regs[firstOperand], signExtend(ir % 32, 5))
                  ELSE BitAnd(regs[firstOperand], regs[ir % 8])
       IN  Done(updateFlags([regs EXCEPT ![destRegister] = res], destRegister),
                mem, input, keys, out)

\* case OpLoadRegister
ExecLoadRegister ==
    /\ loc = "exec"
    /\ OpCodeOf(ir) = OpLoadRegister
    /\ LET destRegister == DrOf(ir)
           baseRegister == BaseOf(ir)
           pcOffset6 == signExtend(ir % 64, 6)
           r == memRead(mem, input, keys,
                        Add16(regs[baseRegister], pcOffset6), at.wait)
       IN  /\ ~r.blocked
           /\ IF r.fault # "none"
              THEN Panic(r.fault, r.mem, r.input, r.keys)
              ELSE IF r.wait # "none"
              THEN Wait(r, 1)
              ELSE Done(updateFlags([regs EXCEPT ![destRegister] = r.val],
                                    destRegister),
                        r.mem, r.input, r.keys, out)

\* OpStoreRegister setting the flag from the stored register.
ExecStoreRegisterSetsFlags ==
    /\ loc = "exec"
    /\ OpCodeOf(ir) = OpStoreRegister
    /\ LET sourceRegister == DrOf(ir)
           baseRegister == BaseOf(ir)
           pcOffset6 == signExtend(ir % 64, 6)
           w == memWrite(mem, Add16(regs[baseRegister], pcOffset6),
                         regs[sourceRegister])
       IN  IF w.fault # "none"
           THEN Panic(w.fault, w.mem, input, keys)
           ELSE Done(updateFlags(regs, sourceRegister), w.mem, input, keys, out)

\* case OpStoreRegister
ExecStoreRegister ==
    /\ loc = "exec"
    /\ OpCodeOf(ir) = OpStoreRegister
    /\ LET sourceRegister == DrOf(ir)
           baseRegister == BaseOf(ir)
           pcOffset6 == signExtend(ir % 64, 6)
           w == memWrite(mem, Add16(regs[baseRegister], pcOffset6),
                         regs[sourceRegister])
       IN  IF w.fault # "none"
           THEN Panic(w.fault, w.mem, input, keys)
           ELSE Done(regs, w.mem, input, keys, out)

\* RTI taken as an instruction without effect.
ExecRtiIgnored ==
    /\ loc = "exec"
    /\ OpCodeOf(ir) = OpRti
    /\ Done(regs, mem, input, keys, out)

\* case OpRti
ExecRti ==
    /\ loc = "exec"
    /\ OpCodeOf(ir) = OpRti
    /\ Panic("not implemented", mem, input, keys)

\* case OpNot
ExecNot ==
    /\ loc = "exec"
    /\ OpCodeOf(ir) = OpNot
    /\ LET destRegister == DrOf(ir)
           sourceRegister == BaseOf(ir)
       IN  Done(updateFlags([regs EXCEPT
                               ![destRegister] = BitNot(regs[sourceRegister])],
                            destRegister),
                mem, input, keys, out)

\* case OpLoadIndirect: memRead(memRead(...)).  While the second call waits,
\* the first has returned MrKbsr, the only address whose read waits.
ExecLoadIndirect ==
    /\ loc = "exec"
    /\ OpCodeOf(ir) = OpLoadIndirect
    /\ LET destRegister == DrOf(ir)
           pcOffset9 == signExtend(ir % 8192, 9)
           r1 == IF at.call = 1
                 THEN memRead(mem, input, keys, Add16(regs[RPc], pcOffset9),
                              at.wait)
                 ELSE Read("none", mem, input, keys, MrKbsr, "none", FALSE)
           r2 == memRead(r1.mem, r1.input, r1.keys, r1.val,
                         IF at.call = 2 THEN at.wait ELSE "none")
       IN  /\ ~r1.blocked
           /\ IF r1.fault # "none"
              THEN Panic(r1.fault, r1.mem, r1.input, r1.keys)
              ELSE IF r1.wait # "none"
              THEN Wait(r1, 1)
              ELSE /\ ~r2.blocked
                   /\ IF r2.fault # "none"
                      THEN Panic(r2.fault, r2.mem, r2.input, r2.keys)
                      ELSE IF r2.wait # "none"
                      THEN Wait(r2, 2)
                      ELSE Done(updateFlags(
                                    [regs EXCEPT ![destRegister] = r2.val],
                                    destRegister),
                                r2.mem, r2.input, r2.keys, out)

\* case OpStoreIndirect: the pointer is read at registers[RPc+pcOffset9].
ExecStoreIndirect ==
    /\ loc = "exec"
    /\ OpCodeOf(ir) = OpStoreIndirect
    /\ LET sourceRegister == DrOf(ir)
           pcOffset9 == signExtend(ir % 8192, 9)
           index == Add16(RPc, pcOffset9)
       IN  IF ~InRegisters(index)
           THEN Panic("register index out of range", mem, input, keys)
           ELSE LET r == memRead(mem, input, keys, regs[index], at.wait)
                    w == memWrite(r.mem, r.val, regs[sourceRegister])
                IN  /\ ~r.blocked
                    /\ IF r.fault # "none"
                       THEN Panic(r.fault, r.mem, r.input, r.keys)
                       ELSE IF r.wait # "none"
                       THEN Wait(r, 1)
                       ELSE IF w.fault # "none"
                       THEN Panic(w.fault, w.mem, r.input, r.keys)
                       ELSE Done(regs, w.mem, r.input, r.keys, out)

\* case OpJump
ExecJump ==
    /\ loc = "exec"
    /\ OpCodeOf(ir) = OpJump
    /\ Done([regs EXCEPT ![RPc] = regs[BaseOf(ir)]], mem, input, keys, out)

\* case OpRes
ExecRes ==
    /\ loc = "exec"
    /\ OpCodeOf(ir) = OpRes
    /\ Panic("not implemented", mem, input, keys)

\* case OpLoadEffectiveAddress
ExecLoadEffectiveAddress ==
    /\ loc = "exec"
    /\ OpCodeOf(ir) = OpLoadEffectiveAddress
    /\ LET destRegister == DrOf(ir)
           pcOffset9 == signExtend(ir % 8192, 9)
       IN  Done(updateFlags([regs EXCEPT
                               ![destRegister] = Add16(regs[RPc], pcOffset9)],
                            destRegister),
                mem, input, keys, out)

(* ------------------------------------------------------ the trap routines *)

\* case TrapGetC: the handler waits in getChar.
ExecTrapGetC ==
    /\ loc = "exec"
    /\ OpCodeOf(ir) = OpTrap
    /\ TrapCodeOf(ir) = TrapGetC
    /\ LET c == getChar(input)
       IN  /\ ~c.blocked
           /\ IF c.fault # "none"
              THEN Panic(c.fault, mem, input, keys)
              ELSE Done([regs EXCEPT ![R0] = c.val], mem, c.input, keys, out)

\* case TrapOut
ExecTrapOut ==
    /\ loc = "exec"
    /\ OpCodeOf(ir) = OpTrap
    /\ TrapCodeOf(ir) = TrapOut
    /\ Done(regs, mem, input, keys, out \o Utf8(regs[R0] % 256))

\* case TrapPutS: loc := registers[R0], then the loop.
ExecTrapPutS ==
    /\ loc = "exec"
    /\ OpCodeOf(ir) = OpTrap
    /\ TrapCodeOf(ir) = TrapPutS
    /\ loc' = "puts"
    /\ ploc' = regs[R0]
    /\ UNCHANGED << file, input, keys, mem, regs, ir, shutdown, out, fault,
                    cycles, args, result, at >>

\* One turn of the loop of TrapPutS.
PutSLoop ==
    /\ loc = "puts"
    /\ LET r == memRead(mem, input, keys, ploc, at.wait)
       IN  /\ ~r.blocked
           /\ IF r.fault # "none"
              THEN Panic(r.fault, r.mem, r.input, r.keys)
              ELSE IF r.wait # "none"
              THEN Wait(r, 1)
              ELSE IF r.val = 0
              THEN Done(regs, r.mem, r.input, r.keys, out)
              ELSE /\ out' = out \o Utf8(r.val % 256)
                   /\ ploc' = Add16(ploc, 1)
                   /\ mem' = r.mem
                   /\ input' = r.input
                   /\ keys' = r.keys
                   /\ at' = NoWait
                   /\ UNCHANGED << file, regs, loc, ir, shutdown, fault,
                                   cycles, args, result >>

\* case TrapIn: the prompt is printed, then the handler waits in getChar.
ExecTrapIn ==
    /\ loc = "exec"
    /\ OpCodeOf(ir) = OpTrap
    /\ TrapCodeOf(ir) = TrapIn
    /\ IF at.wait = "none"
       THEN /\ out' = out \o InPrompt
            /\ at' = [call |-> 1, wait |-> "rune"]
            /\ UNCHANGED << file, input, keys, mem, regs, loc, ir, ploc,
                            shutdown, fault, cycles, args, result >>
       ELSE LET c == getChar(input)
            IN  /\ ~c.blocked
                /\ IF c.fault # "none"
                   THEN Panic(c.fault, mem, input, keys)
                   ELSE Done([regs EXCEPT ![R0] = c.val], mem, c.input, keys,
                             out)

\* case TrapPutSP: loc := registers[R0], then the loop.
ExecTrapPutSP ==
    /\ loc = "exec"
    /\ OpCodeOf(ir) = OpTrap
    /\ TrapCodeOf(ir) = TrapPutSP
    /\ loc' = "putsp"
    /\ ploc' = regs[R0]
    /\ UNCHANGED << file, input, keys, mem, regs, ir, shutdown, out, fault,
                    cycles, args, result, at >>

\* One turn of the loop of TrapPutSP.
PutSPLoop ==
    /\ loc = "putsp"
    /\ LET r == memRead(mem, input, keys, ploc, at.wait)
           first == r.val % 256
           second == Shr(r.val, 8)
       IN  /\ ~r.blocked
           /\ IF r.fault # "none"
              THEN Panic(r.fault, r.mem, r.input, r.keys)
              ELSE IF r.wait # "none"
              THEN Wait(r, 1)
              ELSE IF first = 0
              THEN Done(regs, r.mem, r.input, r.keys, out)
              ELSE IF second = 0
              THEN Done(regs, r.mem, r.input, r.keys, out \o Utf8(first))
              ELSE /\ out' = out \o Utf8(first) \o Utf8(second)
                   /\ ploc' = Add16(ploc, 1)
                   /\ mem' = r.mem
                   /\ input' = r.input
                   /\ keys' = r.keys
                   /\ at' = NoWait
                   /\ UNCHANGED << file, regs, loc, ir, shutdown, fault,
                                   cycles, args, result >>

\* TrapHalt saving the program counter in R7, the linkage of the LC-3 TRAP.
ExecTrapHaltLinks ==
    /\ loc = "exec"
    /\ OpCodeOf(ir) = OpTrap
    /\ TrapCodeOf(ir) = TrapHalt
    /\ loc' = "halted"
    /\ regs' = [regs EXCEPT ![R7] = regs[RPc]]
    /\ out' = out \o HaltNotice
    /\ UNCHANGED << file, input, keys, mem, ir, ploc, shutdown, fault, cycles,
                    args, result, at >>

\* case TrapHalt: running = false, and the loop ends.
ExecTrapHalt ==
    /\ loc = "exec"
    /\ OpCodeOf(ir) = OpTrap
    /\ TrapCodeOf(ir) = TrapHalt
    /\ loc' = "halted"
    /\ out' = out \o HaltNotice
    /\ UNCHANGED << file, input, keys, mem, regs, ir, ploc, shutdown, fault,
                    cycles, args, result, at >>

\* A trap code with no case: the switch does nothing.
ExecTrapOther ==
    /\ loc = "exec"
    /\ OpCodeOf(ir) = OpTrap
    /\ TrapCodeOf(ir) \notin TrapGetC .. TrapHalt
    /\ Done(regs, mem, input, keys, out)

Next ==
    \/ Boot
    \/ Interrupt
    \/ CheckShutdown
    \/ Fetch
    \/ ExecBreak
    \/ ExecAdd
    \/ ExecLoad
    \/ ExecStore
    \/ ExecJumpRegister
    \/ ExecAnd
    \/ ExecLoadRegister
    \/ ExecStoreRegister
    \/ ExecRti
    \/ ExecNot
    \/ ExecLoadIndirect
    \/ ExecStoreIndirect
    \/ ExecJump
    \/ ExecRes
    \/ ExecLoadEffectiveAddress
    \/ ExecTrapGetC
    \/ ExecTrapOut
    \/ ExecTrapPutS
    \/ PutSLoop
    \/ ExecTrapIn
    \/ ExecTrapPutSP
    \/ PutSPLoop
    \/ ExecTrapHalt
    \/ ExecTrapOther

Spec == Init /\ [][Next]_vars

\* A step of the loop's own thread.  The loop runs in the main goroutine and
\* nothing but its own steps makes it wait, so it goes on while it can.
MainStep == Next /\ shutdown' = shutdown

\* Every instruction and trap routine behind one leading instruction, and
\* the scenarios.
LiveFiles ==
    { ImageFile(DataOrigin, Data \o << a, b >>) :
        a \in Leads, b \in Instrs \cup Extras }
    \cup Scenarios \cup RawFiles

InitLive == Init /\ file \in LiveFiles

SpecLive == InitLive /\ [][Next]_vars /\ WF_vars(MainStep)

(* ------------------------------------- signExtend applied on its own *)

\* The field widths of the instruction set.
FieldWidths == { 5, 6, 9, 11 }

\* Every 16-bit value v with every field width n.
InitSignExtend ==
    /\ args \in (0 .. uint16Max) \X FieldWidths
    /\ result = << >>
    /\ loc = "call"
    /\ file = [exists |-> FALSE, bytes |-> << >>]
    /\ input = << >>
    /\ keys = << >>
    /\ mem = EmptyMem
    /\ regs = [i \in 0 .. RCount - 1 |-> 0]
    /\ ir = 0
    /\ ploc = 0
    /\ shutdown = FALSE
    /\ out = << >>
    /\ fault = "none"
    /\ cycles = 0
    /\ at = NoWait

\* signExtend(v & mask(n), n), the way the handlers call it.
ApplySignExtend ==
    /\ loc = "call"
    /\ result' = << signExtend(args[1] % (2 ^ args[2]), args[2]) >>
    /\ loc' = "returned"
    /\ UNCHANGED << file, input, keys, mem, regs, ir, ploc, shutdown, out,
                    fault, cycles, args, at >>

SpecSignExtend == InitSignExtend /\ [][ApplySignExtend]_vars

(* ------------------------------------- updateFlags applied on its own *)

\* A register file and a memory whose cells can be told apart.
MarkedRegs ==
    [i \in 0 .. RCount - 1 |->
        IF i = RPc THEN PcStart
        ELSE IF i = RCond THEN 0
        ELSE Hex(i + 1, i + 1, i + 1, i + 1)]

MarkedMem == MemSet(EmptyMem, PcStart, Hex(15, 0, 2, 5))

\* The variables a handler applied on its own does not read.
Idle ==
    /\ file = [exists |-> FALSE, bytes |-> << >>]
    /\ input = << >>
    /\ keys = << >>
    /\ ploc = 0
    /\ shutdown = FALSE
    /\ out = << >>
    /\ fault = "none"
    /\ cycles = 0
    /\ at = NoWait

\* Every register index d of a handler with every 16-bit value r in it.
InitUpdateFlags ==
    /\ args \in (R0 .. R7) \X (0 .. uint16Max)
    /\ result = << >>
    /\ loc = "call"
    /\ regs = [MarkedRegs EXCEPT ![args[1]] = args[2]]
    /\ mem = MarkedMem
    /\ ir = 0
    /\ Idle

\* updateFlags(d)
ApplyUpdateFlags ==
    /\ loc = "call"
    /\ regs' = updateFlags(regs, args[1])
    /\ loc' = "returned"
    /\ UNCHANGED << file, input, keys, mem, ir, ploc, shutdown, out, fault,
                    cycles, args, result, at >>

SpecUpdateFlags == InitUpdateFlags /\ [][ApplyUpdateFlags]_vars

(* ------------------------------------- handlers applied on their own *)

\* Register values around the ends of the signed and unsigned ranges.
Values ==
    { 0, 1, 2, Hex(1, 2, 3, 4), Hex(7, 15, 15, 15), Hex(8, 0, 0, 0),
      Hex(15, 15, 15, 0), uint16Max }

\* An instruction word from its opcode and its fields.
Encode(op, dr, rest) == op * 4096 + dr * 512 + rest

\* ADD and AND in immediate form, with every imm5.
AluInstrs ==
    { Encode(op, dr, sr * 64 + 32 + imm5) :
        op \in { OpAdd, OpAnd }, dr \in { R0, R1, R7 }, sr \in { R0, R1 },
        imm5 \in 0 .. 31 }

\* The loop has fetched an ALU instruction; its first operand holds any of
\* the values.
InitAlu ==
    /\ loc = "exec"
    /\ ir \in AluInstrs
    /\ \E v \in Values : regs = [MarkedRegs EXCEPT ![BaseOf(ir)] = v]
    /\ mem = MarkedMem
    /\ args = << >>
    /\ result = << >>
    /\ Idle

SpecAlu == InitAlu /\ [][ExecAdd \/ ExecAnd]_vars

\* Places of the program counter after the fetch: the usual start, and one
\* near each end of the address space.
StepPcs == { PcStart + 1, 2, uint16Max - 1 }

\* Memory with a pointer one cell after PcStart + 1, and a value where the
\* pointer leads.
StepMem == MemSet(MarkedMem, PcStart + 2, PcStart)

\* BR, LD, ST, JSR/JSRR, LDI, STI and LEA with every pattern in bits 11..0.
PcRelativeInstrs ==
    { Encode(op, 0, low12) :
        op \in { OpBreak, OpLoad, OpStore, OpJumpRegister, OpLoadIndirect,
                 OpStoreIndirect, OpLoadEffectiveAddress },
        low12 \in 0 .. 4095 }

\* The loop has fetched one of these instructions, with any flag.
InitPcRelative ==
    /\ loc = "exec"
    /\ ir \in PcRelativeInstrs
    /\ \E pc \in StepPcs, flag \in { FlagPositive, FlagZero, FlagNegative } :
           regs = [MarkedRegs EXCEPT ![RPc] = pc, ![RCond] = flag]
    /\ mem = StepMem
    /\ args = << >>
    /\ result = << >>
    /\ Idle

NextPcRelative ==
    \/ ExecBreak
    \/ ExecLoad
    \/ ExecStore
    \/ ExecJumpRegister
    \/ ExecLoadIndirect
    \/ ExecStoreIndirect
    \/ ExecLoadEffectiveAddress

SpecPcRelative == InitPcRelative /\ [][NextPcRelative]_vars

(* ------------------------------------------------------------ properties *)

IsFlag(v) == v \in { FlagPositive, FlagZero, FlagNegative }

FlagDefining ==
    { OpAdd, OpAnd, OpNot, OpLoad, OpLoadIndirect, OpLoadRegister,
      OpLoadEffectiveAddress }

\* R0..R7 and the condition flag: every register but the program counter.
Unfetched == (R0 .. R7) \cup { RCond }

\* C1: once a flag-defining instruction (ADD, AND, NOT, LD, LDI, LDR, LEA)
\* has completed, the condition flag is exactly one of POSITIVE, ZERO,
\* NEGATIVE, and it stays so through every later step.
C1_FlagOneOfThree ==
    [][ /\ (loc = "exec" /\ OpCodeOf(ir) \in FlagDefining /\ loc' = "check"
              => IsFlag(regs'[RCond]))
        /\ (IsFlag(regs[RCond]) => IsFlag(regs'[RCond])) ]_vars

\* A flag is set and a store, which defines no flag, has run after it.
C1_Witness ==
    /\ loc = "check"
    /\ cycles >= 2
    /\ OpCodeOf(ir) = OpStoreRegister
    /\ regs[RCond] = FlagNegative

\* C2: the stop signal takes effect only at the head of a cycle.  With the
\* signal set the check ends the run and touches nothing; the run is stopped
\* from no other place, so an instruction past the check runs to its end; a
\* fetch is only reached through a check that saw no signal; nothing runs
\* after the stop.
C2_StopOnlyBetweenInstructions ==
    [][ /\ (loc = "check" /\ shutdown
              => /\ loc' = "stopped"
                 /\ UNCHANGED << mem, regs, input, keys, out, cycles >>)
        /\ (loc' = "stopped" /\ loc # "stopped" => loc = "check" /\ shutdown)
        /\ (loc' = "fetch" /\ loc # "fetch" => loc = "check" /\ ~shutdown)
        /\ (loc = "stopped" => FALSE) ]_vars

\* The run was stopped after two instructions had completed.
C2_Witness ==
    /\ loc = "stopped"
    /\ shutdown
    /\ cycles = 2
    /\ regs[R0] = 2

\* C3: the handler of TRAP HALT ends the loop and changes no register, no
\* memory cell and fetches nothing; nothing runs after it.  The fetch that
\* brought the TRAP advanced the program counter and nothing else.
C3_HaltStops ==
    [][ /\ ((/\ loc = "exec"
             /\ OpCodeOf(ir) = OpTrap
             /\ TrapCodeOf(ir) = TrapHalt
             /\ shutdown' = shutdown)
              => /\ loc' = "halted"
                 /\ UNCHANGED << regs, mem, cycles >>)
        /\ (loc = "fetch" => \A r \in Unfetched : regs'[r] = regs[r])
        /\ (loc = "halted" => FALSE) ]_vars

\* HALT ran after an instruction that left a value and a flag.
C3_Witness ==
    /\ loc = "halted"
    /\ regs[R0] = uint16Max
    /\ regs[RCond] = FlagNegative
    /\ regs[RPc] = PcStart + 2

\* C4: no read and no write of memory aborts the run, whatever the address.
C4_EveryAddressValid == fault # "memory index out of range"

\* C5: a fetch from an address other than KBSR returns the cell and leaves
\* memory, the input and every register but the program counter as they were.
C5_ReadHasNoSideEffect ==
    [][ loc = "fetch" /\ loc' = "exec" /\ regs[RPc] # MrKbsr
          => /\ ir' = MemGet(mem, regs[RPc])
             /\ UNCHANGED << mem, input, keys >>
             /\ \A r \in Unfetched : regs'[r] = regs[r] ]_vars

\* The instruction reads KBSR as its one read of memory: a fetch at KBSR, or
\* an LDR whose address is KBSR.
ReadsKbsr ==
    \/ loc = "fetch" /\ regs[RPc] = MrKbsr
    \/ /\ loc = "exec"
       /\ OpCodeOf(ir) = OpLoadRegister
       /\ Add16(regs[BaseOf(ir)], signExtend(ir % 64, 6)) = MrKbsr

\* C6: a read of KBSR with a character pending sets bit 15 of the KBSR cell
\* and puts the character in the KBDR cell; with none pending it leaves the
\* KBSR cell 0 and reads 0, whatever the cell held.  The read returns from
\* reader.ReadRune() when there was a key, from screen.Getch() when there was
\* none.
C6_KbsrPoll ==
    [][ (/\ ReadsKbsr
         /\ loc' \in { "exec", "check" }
         /\ loc' # loc
         /\ shutdown' = shutdown)
          => IF at.wait = "rune"
             THEN /\ MemGet(mem', MrKbsr) >= 32768
                  /\ MemGet(mem', MrKbdr) = Head(input) % 256
             ELSE /\ MemGet(mem', MrKbsr) = 0
                  /\ (loc = "fetch" => ir' = 0)
                  /\ (loc = "exec" => regs'[DrOf(ir)] = 0) ]_vars

\* An image of whole words with its origin word.
IsImage(f) == f.exists /\ Len(f.bytes) >= 2 /\ Len(f.bytes) % 2 = 0

FileOrigin(f) == f.bytes[1] * 256 + f.bytes[2]

FileWords(f) ==
    [k \in 1 .. (Len(f.bytes) - 2) \div 2 |->
        f.bytes[2 * k + 1] * 256 + f.bytes[2 * k + 2]]

\* C7: before the first cycle the words of an image that fits above its
\* origin o are at o, o+1, ..., every other cell is 0, and the program
\* counter is 0x3000.
C7_LoadAtAnyOrigin ==
    (/\ loc = "check"
     /\ cycles = 0
     /\ IsImage(file)
     /\ FileOrigin(file) + Len(FileWords(file)) <= Word)
      => LET o == FileOrigin(file)
             w == FileWords(file)
         IN  /\ \A k \in 1 .. Len(w) : MemGet(mem, o + k - 1) = w[k]
             /\ \A a \in DOMAIN mem : a \in o .. o + Len(w) - 1
             /\ regs[RPc] = PcStart

\* C8: with a file that cannot be opened or that holds no whole origin word
\* the run ends in the loader and the loop is never entered.
C8_LoadErrorBeforeRun ==
    (~file.exists \/ Len(file.bytes) < 2)
      => loc \in { "load", "panic" } /\ cycles = 0

\* C9: the handler of RTI and of the reserved opcode aborts the run as not
\* implemented and changes no register and no memory cell; nothing runs
\* after the abort.
C9_UnimplementedAborts ==
    [][ /\ ((/\ loc = "exec"
             /\ OpCodeOf(ir) \in { OpRti, OpRes }
             /\ shutdown' = shutdown)
              => /\ loc' = "panic"
                 /\ fault' = "not implemented"
                 /\ UNCHANGED << regs, mem, cycles, out >>)
        /\ (loc = "panic" => FALSE) ]_vars

\* The reserved opcode was fetched after a load had filled a register.
C9_Witness ==
    /\ loc = "panic"
    /\ fault = "not implemented"
    /\ OpCodeOf(ir) = OpRes
    /\ regs[R1] = MrKbsr
    /\ cycles = 2

\* C10: signExtend(v & mask(n), n) is the 16-bit two's complement of the low
\* n bits of v read as a signed number: the field itself when its top bit is
\* 0, the field with the bits n..15 set when it is 1.
C10_SignExtend ==
    loc = "returned"
      => LET n == args[2]
             field == args[1] % (2 ^ n)
             signed == IF field >= 2 ^ (n - 1) THEN field - 2 ^ n ELSE field
         IN  /\ result[1] = (signed + Word) % Word
             /\ (field < 2 ^ (n - 1) => result[1] = field)
             /\ (field >= 2 ^ (n - 1)
                   => result[1] = field + (Word - 2 ^ n))

\* A negative 5-bit field of a word with higher bits set.
C10_Witness ==
    /\ loc = "returned"
    /\ args = << Hex(1, 0, 3, 14), 5 >>
    /\ result = << uint16Max - 1 >>

\* C11: updateFlags(d) sets the flag to ZERO when the register holds 0, to
\* NEGATIVE when its bit 15 is set, to POSITIVE otherwise, and changes no
\* other register and no memory cell.
C11_UpdateFlags ==
    loc = "returned"
      => LET d == args[1]
             r == args[2]
         IN  /\ regs[RCond] = IF r = 0 THEN FlagZero
                              ELSE IF r >= 32768 THEN FlagNegative
                              ELSE FlagPositive
             /\ \A i \in (0 .. RCount - 1) \ { RCond } :
                    regs[i] = IF i = d THEN r ELSE MarkedRegs[i]
             /\ mem = MarkedMem

\* The smallest negative value in R5.
C11_Witness ==
    /\ loc = "returned"
    /\ args = << R5, 32768 >>
    /\ regs[RCond] = FlagNegative

\* C12: TRAP PUTS starts at R0 and emits nothing by itself; each turn of its
\* loop reads one word: a zero word ends the routine, any other word has its
\* low byte emitted and the loop goes to the next address.  No register
\* changes.
C12_PutsEmitsLowBytes ==
    [][ /\ ((/\ loc = "exec"
             /\ OpCodeOf(ir) = OpTrap
             /\ TrapCodeOf(ir) = TrapPutS
             /\ shutdown' = shutdown)
              => /\ loc' = "puts"
                 /\ ploc' = regs[R0]
                 /\ UNCHANGED << out, regs >>)
        /\ ((/\ loc = "puts"
             /\ ploc # MrKbsr
             /\ loc' \in { "puts", "check" }
             /\ shutdown' = shutdown)
              => IF MemGet(mem, ploc) = 0
                 THEN loc' = "check" /\ UNCHANGED << out, regs >>
                 ELSE /\ loc' = "puts"
                      /\ out' = Append(out, MemGet(mem, ploc) % 256)
                      /\ ploc' = ploc + 1
                      /\ UNCHANGED regs) ]_vars

\* C13: each turn of the loop of TRAP PUTSP reads one word and emits its low
\* byte, then its high byte, and ends the routine at the first byte that is
\* zero without emitting it or anything after it.
C13_PutspEmitsPackedBytes ==
    [][ /\ ((/\ loc = "exec"
             /\ OpCodeOf(ir) = OpTrap
             /\ TrapCodeOf(ir) = TrapPutSP
             /\ shutdown' = shutdown)
              => /\ loc' = "putsp"
                 /\ ploc' = regs[R0]
                 /\ UNCHANGED << out, regs >>)
        /\ ((/\ loc = "putsp"
             /\ ploc # MrKbsr
             /\ loc' \in { "putsp", "check" }
             /\ shutdown' = shutdown)
              => LET low == MemGet(mem, ploc) % 256
                     high == MemGet(mem, ploc) \div 256
                 IN  IF low = 0
                     THEN loc' = "check" /\ UNCHANGED << out, regs >>
                     ELSE IF high = 0
                     THEN /\ loc' = "check"
                          /\ out' = Append(out, low)
                          /\ UNCHANGED regs
                     ELSE /\ loc' = "putsp"
                          /\ out' = out \o << low, high >>
                          /\ ploc' = ploc + 1
                          /\ UNCHANGED regs) ]_vars

\* The number an n-bit field stands for, read as a signed number.
Signed(field, n) == IF field >= 2 ^ (n - 1) THEN field - 2 ^ n ELSE field

\* The flag of a 16-bit value.
FlagOf(v) ==
    IF v = 0 THEN FlagZero
    ELSE IF v >= 32768 THEN FlagNegative
    ELSE FlagPositive

\* C14: ADD in immediate form sets DR to (SR1 + sext5(imm5)) mod 2^16, AND in
\* immediate form sets DR to SR1 & sext5(imm5): the low five bits are ANDed
\* with imm5 and the bits above are kept when imm5 is negative, cleared when
\* it is not.  The flag is the flag of the result.
C14_AluImmediate ==
    [][ loc = "exec" /\ OpCodeOf(ir) \in { OpAdd, OpAnd } /\ ImmFlagOf(ir) = 1
          => LET imm5 == ir % 32
                 a == regs[BaseOf(ir)]
                 expected ==
                     IF OpCodeOf(ir) = OpAdd
                     THEN (a + Signed(imm5, 5) + Word) % Word
                     ELSE BitAnd(a % 32, imm5)
                          + (IF imm5 >= 16 THEN a - (a % 32) ELSE 0)
             IN  /\ loc' = "check"
                 /\ regs'[DrOf(ir)] = expected
                 /\ regs'[RCond] = FlagOf(expected) ]_vars

\* ADD R0,R0,#1 wrapped 0xFFFF to 0.
C14_Witness ==
    /\ loc = "check"
    /\ ir = Hex(1, 0, 2, 1)
    /\ regs[R0] = 0
    /\ regs[RCond] = FlagZero

\* PC_after_fetch + sext(bits n-1..0) mod 2^16.
PcRelative(n) == (regs[RPc] + Signed(ir % 2 ^ n, n) + Word) % Word

\* One of the instruction's n/z/p bits matches the flag.
BranchTaken ==
    \/ (Shr(ir, 11) % 2 = 1 /\ regs[RCond] = FlagNegative)
    \/ (Shr(ir, 10) % 2 = 1 /\ regs[RCond] = FlagZero)
    \/ (Shr(ir, 9) % 2 = 1 /\ regs[RCond] = FlagPositive)

\* C15: BR sets PC to PC_after_fetch + sext9(bits 8..0) mod 2^16 exactly when
\* one of its n/z/p bits matches the flag and leaves PC alone otherwise; the
\* target is a function of the 9-bit field only.
C15_BranchTarget ==
    [][ loc = "exec" /\ OpCodeOf(ir) = OpBreak
          => /\ loc' = "check"
             /\ regs' = [regs EXCEPT
                           ![RPc] = IF BranchTaken THEN PcRelative(9) ELSE @]
      ]_vars

\* C16: LEA sets DR to PC_after_fetch + sext9(bits 8..0) mod 2^16, LD sets DR
\* to the memory cell at that address and LDI to the cell that cell points
\* to, for every DR; the address is a function of the 9-bit field only.
C16_PcRelativeLoads ==
    [][ loc = "exec"
          => /\ OpCodeOf(ir) = OpLoadEffectiveAddress
                  => loc' = "check" /\ regs'[DrOf(ir)] = PcRelative(9)
             /\ OpCodeOf(ir) = OpLoad /\ InMemory(PcRelative(9))
                  => loc' = "check"
                     /\ regs'[DrOf(ir)] = MemGet(mem, PcRelative(9))
             /\ (/\ OpCodeOf(ir) = OpLoadIndirect
                 /\ InMemory(PcRelative(9))
                 /\ InMemory(MemGet(mem, PcRelative(9))))
                  => loc' = "check"
                     /\ regs'[DrOf(ir)]
                          = MemGet(mem, MemGet(mem, PcRelative(9)))
      ]_vars

\* C17: ST writes SR to the cell at PC_after_fetch + sext9(bits 8..0) mod 2^16
\* and STI to the cell that cell points to; the store completes, changes that
\* one cell and no register.
C17_PcRelativeStores ==
    [][ loc = "exec" /\ InMemory(PcRelative(9))
          => /\ OpCodeOf(ir) = OpStore
                  => /\ loc' = "check"
                     /\ mem' = MemSet(mem, PcRelative(9), regs[DrOf(ir)])
                     /\ regs' = regs
             /\ (/\ OpCodeOf(ir) = OpStoreIndirect
                 /\ InMemory(MemGet(mem, PcRelative(9))))
                  => /\ loc' = "check"
                     /\ mem' = MemSet(mem, MemGet(mem, PcRelative(9)),
                                      regs[DrOf(ir)])
                     /\ regs' = regs
      ]_vars

\* C18: JSR/JSRR first puts PC_after_fetch into R7, then sets PC to
\* PC_after_fetch + sext11(bits 10..0) mod 2^16 when bit 11 is set and to the
\* contents of the base register when it is clear (the base register is read
\* after the save, so JSRR R7 continues at PC_after_fetch); nothing else
\* changes.
C18_JumpToSubroutine ==
    [][ loc = "exec" /\ OpCodeOf(ir) = OpJumpRegister
          => LET linked == [regs EXCEPT ![R7] = regs[RPc]]
             IN  /\ loc' = "check"
                 /\ regs' = [linked EXCEPT
                               ![RPc] = IF Shr(ir, 11) % 2 = 1
                                        THEN PcRelative(11)
                                        ELSE linked[BaseOf(ir)]]
                 /\ mem' = mem
      ]_vars

\* JSR #-1 near the top of the address space.
C18_Witness ==
    /\ loc = "check"
    /\ ir = Hex(4, 15, 15, 15)
    /\ regs[R7] = uint16Max - 1
    /\ regs[RPc] = uint16Max - 2

\* The loop is inside the handler of an instruction or trap routine other
\* than GETC and IN.  A taken BR with a negative offset is left out: its call
\* of pcPlusOffset has no result.
InHandler ==
    \/ loc \in { "puts", "putsp" }
    \/ /\ loc = "exec"
       /\ ~(OpCodeOf(ir) = OpTrap /\ TrapCodeOf(ir) \in { TrapGetC, TrapIn })
       /\ ~(OpCodeOf(ir) = OpBreak /\ BranchTaken /\ ir % 512 >= 256)

\* C19: every handler other than GETC and IN ends after finitely many steps,
\* by returning to the loop or by ending the run; the loops of PUTS and PUTSP
\* end also when no zero word lies between R0 and the top of memory.
C19_HandlersTerminate == InHandler ~> ~InHandler

\* C20: only ADD, AND, NOT, LD, LDI, LDR and LEA touch the condition flag: a
\* step of any other instruction or trap routine, of the fetch and of the
\* stop check leaves it as it was.
C20_FlagSticky ==
    [][ ~(loc = "exec" /\ OpCodeOf(ir) \in FlagDefining)
          => regs'[RCond] = regs[RCond] ]_vars

\* BRn was taken on the flag of the ADD four instructions before it, with STR,
\* JSR and TRAP OUT in between.
C20_Witness ==
    /\ loc = "check"
    /\ ir = Hex(0, 8, 0, 1)
    /\ cycles = 5
    /\ regs[RCond] = FlagNegative
    /\ regs[RPc] = PcStart + 5 + Hex(0, 8, 0, 1)
    /\ regs[R7] = PcStart + 3
    /\ out # << >>

====
